---- MODULE Spec2Model ----
(***************************************************************************)
(* A state-machine model of the two static routers of mcenoc-route:        *)
(*   - mcenoc-route.py : BSPMat (recursive permutation decomposition) and  *)
(*                       BSRoute (request validation, gen, routebits);     *)
(*   - banyan-sroute.py: BSRoute.gen, the simple sorted router.            *)
(* Python dictionaries are modelled in insertion order, which is the order *)
(* in which CPython iterates them, so "next(iter(...))" is the first entry.*)
(***************************************************************************)
EXTENDS Integers, Sequences, FiniteSets, TLC

VARIABLES
    pc,        \* position of the program
    err,       \* the exception that ended the run, NoError when none
    nports,    \* self.nports
    nbits,     \* self.nbits
    mbits,     \* self.mbits
    stages,    \* self.stages
    rbits,     \* self.rbits (the declared header length)
    src,       \* self.src
    dst,       \* self.dst
    l,         \* the list handed to dupecheck
    dupes,     \* the set dupecheck computed
    sw,        \* banyan gen: the running middle-switch group
    i,         \* index of the loop that is running
    printed,   \* banyan gen: the lines printed, one record per route
    stack,     \* pending calls of BSPMat.permutation (deepest first)
    self,      \* the BSPMat whose permutation() is running
    stage,     \* permutation(): stage
    offset,    \* permutation(): offset
    ps,        \* self.ps
    pd,        \* self.pd
    dbl,       \* self.dbl (keys in insertion order)
    Pa,        \* permutation(): Pa
    Pb,        \* permutation(): Pb
    pos,       \* permutation(): pos
    refidx,    \* permutation(): refidx
    startcol,  \* permutation(): startcol
    othercols, \* permutation(): othercols
    swconfig,  \* self.swconfig: (stage, group) -> crossing sets
    inputs,    \* self.inputs: port -> token (the port the token entered at)
    headers    \* routebits(): rbits, token -> bit sequence

vars == <<pc, err, nports, nbits, mbits, stages, rbits, src, dst, l, dupes,
          sw, i, printed, stack, self, stage, offset, ps, pd, dbl, Pa, Pb,
          pos, refidx, startcol, othercols, swconfig, inputs, headers>>

topoVars == <<nports, nbits, mbits, stages, rbits>>
sortVars == <<sw, printed>>
dupeVars == <<l, dupes>>
permVars == <<stack, self, stage, offset, ps, pd, dbl, Pa, Pb, pos, refidx,
              startcol, othercols, swconfig>>
routeVars == <<inputs, headers>>

(***************************************************************************)
(* Bounds of the model.                                                    *)
(***************************************************************************)
\* ports are N = 2^k for k in 0..MaxK
MaxK == 3
\* every ordering of the sources and of the destinations is enumerated for
\* N <= FullN; above it the requests are the classical permutation family
FullN == 4
\* switch radices BN and BM of the topology line are drawn from 1..MaxRadix
MaxRadix == 4
\* the level count BL of the topology line is drawn from 0..MaxLevels
MaxLevels == 2
\* dupecheck is applied to lists of up to MaxLen ids
MaxLen == 4
\* the validation of __init__ is applied to requests of up to MaxPairs pairs
MaxPairs == 2
\* ... on networks of 2^k ports, k in 0..MaxVK
MaxVK == 1

(***************************************************************************)
(* Arithmetic helpers.                                                     *)
(***************************************************************************)
Pow2(n) == 2^n

\* int(x / y) of Python for y > 0: true division, truncated towards zero
TruncDiv(x, y) == IF x >= 0 THEN x \div y ELSE -((-x) \div y)

RECURSIVE Log2(_)
\* int(math.log(n, 2)) for n >= 1
Log2(n) == IF n <= 1 THEN 0 ELSE 1 + Log2(n \div 2)

Range(s) == {s[j] : j \in DOMAIN s}

SetMax(S) == CHOOSE x \in S : \A y \in S : y <= x
SetMin(S) == CHOOSE x \in S : \A y \in S : x <= y

RECURSIVE BitOr(_, _)
\* a | b for non-negative integers
BitOr(a, b) ==
    IF a = 0 THEN b
    ELSE IF b = 0 THEN a
    ELSE (IF (a % 2 = 1) \/ (b % 2 = 1) THEN 1 ELSE 0)
         + 2 * BitOr(a \div 2, b \div 2)

RECURSIVE Binary(_)
\* the binary digits of v >= 0, most significant first ("{:b}")
Binary(v) == IF v <= 1 THEN <<v>> ELSE Append(Binary(v \div 2), v % 2)

RECURSIVE Zeros(_)
Zeros(n) == IF n <= 0 THEN <<>> ELSE <<0>> \o Zeros(n - 1)

\* "{:0<width>b}".format(v): zero padded to width, longer when v needs it
FormatBits(v, width) == Zeros(width - Len(Binary(v))) \o Binary(v)

(***************************************************************************)
(* The inputs: topology lines and route requests.                          *)
(***************************************************************************)
\* all orderings of 0..n-1, as lists
Perms(n) ==
    {f \in [1..n -> 0..(n - 1)] : \A a, b \in 1..n : a # b => f[a] # f[b]}

RECURSIVE BitPerm(_, _, _)
\* the number whose bit pi[j] is bit j-1 of x, for j in 1..k
BitPerm(pi, k, x) ==
    IF k = 0 THEN 0
    ELSE ((x \div Pow2(k - 1)) % 2) * Pow2(pi[k]) + BitPerm(pi, k - 1, x)

\* rotations and reflections of the port ring: x -> (a*x + b) mod N
Dihedral(N, B) ==
    {[x \in 0..(N - 1) |-> (a * x + b) % N] : a \in {1, N - 1}, b \in B}

\* the classical interconnection-network permutations of N = 2^k ports: a
\* rotation or reflection followed by a permutation of the address bits
\* (identity, bit reversal, perfect shuffle, butterfly, exchange, ...)
Classic(N) ==
    {[x \in 0..(N - 1) |-> BitPerm(pi, Log2(N), g[x])] :
        pi \in Perms(Log2(N)), g \in Dihedral(N, 0..(N - 1))}

\* listing orders of the sources: ascending, descending, bit-reversed
Orders(N) ==
    {[j \in 1..N |-> j - 1],
     [j \in 1..N |-> N - j],
     [j \in 1..N |-> BitPerm([b \in 1..Log2(N) |-> Log2(N) - b], Log2(N), j - 1)]}

ListedAs(o, g) == [s |-> o, d |-> [j \in DOMAIN o |-> g[o[j]]]]

\* the requests routed by mcenoc-route: a list of sources and a list of
\* destinations, each an ordering of 0..N-1 (randroute, or a full set of
\* src--dst arguments that passed the checks of __init__)
Requests(N) ==
    IF N <= FullN
    THEN {[s |-> s, d |-> d] : s \in Perms(N), d \in Perms(N)}
    ELSE {ListedAs(o, g) : o \in Orders(N), g \in Classic(N)}

\* a few requests per size, used where the topology line varies
SampleRequests(N) ==
    {ListedAs(o, g) : o \in Orders(N), g \in Dihedral(N, {0, 1})}

\* the network of 2x2 switches with N ports: \node[BP=N, BN=2, BM=2, BL=k-1
Benes(k) ==
    [BP |-> Pow2(k), BN |-> 2, BM |-> IF k = 0 THEN 1 ELSE 2,
     BL |-> IF k = 0 THEN 0 ELSE k - 1]

\* the integers parse() may read from the first line of the network file
TopologyLines ==
    [BP : {Pow2(k) : k \in 0..MaxK}, BN : 2..MaxRadix, BM : 1..MaxRadix,
     BL : 0..MaxLevels]

\* BSRoute.__init__, the topology fields
InitNbits(t) == Log2(t.BN)
InitMbits(t) == Log2(t.BM)
InitRbits(t) == t.BL * InitNbits(t) * 2 + InitMbits(t)

ReadTopology(t) ==
    /\ nports = t.BP
    /\ nbits = InitNbits(t)
    /\ mbits = InitMbits(t)
    /\ stages = t.BL
    /\ rbits = InitRbits(t)

NoError == [kind |-> "", dupes |-> {}, value |-> 0]

(***************************************************************************)
(* Validation: dupecheck, rangecheck and the checks of BSRoute.__init__.   *)
(***************************************************************************)
RECURSIVE DupeScan(_, _, _, _)
\* set(x for x in l if x in seen or seen.add(x)), from item n on
DupeScan(lst, n, seen, found) ==
    IF n > Len(lst) THEN found
    ELSE IF lst[n] \in seen
         THEN DupeScan(lst, n + 1, seen, found \cup {lst[n]})
         ELSE DupeScan(lst, n + 1, seen \cup {lst[n]}, found)

\* a scan that compares each item with its predecessor only
DupesAdjacent(lst) ==
    {lst[n] : n \in {m \in 2..Len(lst) : lst[m] = lst[m - 1]}}

\* the set dupecheck reports; it raises when the set is not empty
Dupes(lst) == DupeScan(lst, 1, {}, {})

\* a range check that lets the id N through
RangeErrorOffByOne(n, lst) ==
    IF SetMax(Range(lst)) > n
    THEN [kind |-> "OutOfRange", dupes |-> {}, value |-> SetMax(Range(lst))]
    ELSE IF SetMin(Range(lst)) < 0
    THEN [kind |-> "OutOfRange", dupes |-> {}, value |-> SetMin(Range(lst))]
    ELSE NoError

\* rangecheck (with rangeraise) on a non-empty list
RangeError(n, lst) ==
    IF SetMax(Range(lst)) >= n
    THEN [kind |-> "OutOfRange", dupes |-> {}, value |-> SetMax(Range(lst))]
    ELSE IF SetMin(Range(lst)) < 0
    THEN [kind |-> "OutOfRange", dupes |-> {}, value |-> SetMin(Range(lst))]
    ELSE NoError

DupeError(lst) ==
    IF Dupes(lst) # {}
    THEN [kind |-> "Duplicate", dupes |-> Dupes(lst), value |-> 0]
    ELSE NoError

\* the four checks at the end of __init__, in their order
ValidationError(n, s, d) ==
    IF DupeError(s) # NoError THEN DupeError(s)
    ELSE IF DupeError(d) # NoError THEN DupeError(d)
    ELSE IF RangeError(n, s) # NoError THEN RangeError(n, s)
    ELSE RangeError(n, d)

Lists(ids, lo, hi) == UNION {[1..n -> ids] : n \in lo..hi}

\* the state of the variables a specification does not use
IdleTopology ==
    nports = 0 /\ nbits = 0 /\ mbits = 0 /\ stages = 0 /\ rbits = 0
IdleRequest == src = <<>> /\ dst = <<>>
IdleDupe == l = <<>> /\ dupes = {}
IdleSort == sw = 0 /\ printed = <<>>
IdlePerm ==
    /\ stack = <<>> /\ self = <<>> /\ stage = 0 /\ offset = 0
    /\ ps = <<>> /\ pd = <<>> /\ dbl = <<>> /\ Pa = <<>> /\ Pb = <<>>
    /\ pos = 0 /\ refidx = 0 /\ startcol = 0 /\ othercols = 0
    /\ swconfig = <<>>
IdleRoute == inputs = <<>> /\ headers = <<>>

\* ---- dupecheck on its own ----
InitDupe ==
    /\ pc = "dupecheck" /\ err = NoError /\ i = 0
    /\ l \in Lists(0..(MaxLen - 1), 0, MaxLen)
    /\ dupes = {}
    /\ IdleTopology /\ IdleRequest /\ IdleSort /\ IdlePerm /\ IdleRoute

Dupecheck ==
    /\ pc = "dupecheck"
    /\ dupes' = Dupes(l)
    /\ err' = DupeError(l)
    /\ pc' = IF Dupes(l) # {} THEN "error" ELSE "done"
    /\ UNCHANGED <<topoVars, src, dst, l, i, sortVars, permVars, routeVars>>

NextDupe == Dupecheck

SpecDupe == InitDupe /\ [][NextDupe]_vars

\* ---- the checks of __init__ ----
InitValidate ==
    /\ pc = "validate" /\ err = NoError /\ i = 0
    /\ \E k \in 0..MaxVK : ReadTopology(Benes(k))
    /\ \E n \in 1..MaxPairs :
          /\ src \in [1..n -> -1..nports]
          /\ dst \in [1..n -> -1..nports]
    /\ IdleDupe /\ IdleSort /\ IdlePerm /\ IdleRoute

Validate ==
    /\ pc = "validate"
    /\ err' = ValidationError(nports, src, dst)
    /\ pc' = IF ValidationError(nports, src, dst) # NoError
             THEN "error" ELSE "validated"
    /\ UNCHANGED <<topoVars, src, dst, dupeVars, i, sortVars, permVars,
                   routeVars>>

NextValidate == Validate

SpecValidate == InitValidate /\ [][NextValidate]_vars

(***************************************************************************)
(* banyan-sroute.py: BSRoute.gen, the simple sorted router.                *)
(***************************************************************************)
RECURSIVE SortIdx(_, _)
\* the indices in rem ordered by destination, ties in list order (sorted())
SortIdx(d, rem) ==
    IF rem = {} THEN <<>>
    ELSE LET m == CHOOSE a \in rem :
                     \A b \in rem : d[a] < d[b] \/ (d[a] = d[b] /\ a <= b)
         IN  <<m>> \o SortIdx(d, rem \ {m})

\* self.routesort: the sources, ordered by their destination
routesort(s, d) ==
    [j \in 1..Len(s) |-> s[SortIdx(d, DOMAIN s)[j]]]

hbits == TruncDiv(rbits - 1, 2)
nsw == TruncDiv(nports, Pow2(mbits))
swskip == TruncDiv(nsw, Pow2(mbits))

\* an advance that wraps modulo the block without the extra step
SwAfterPlainWrap(g, skip, block) == (g + skip) % block

\* lines 101-103: sw += swskip; if sw >= nsw: sw = (sw + 1) % nsw
SwAfter(g, skip, block) ==
    IF g + skip >= block THEN (g + skip + 1) % block ELSE g + skip

\* lines 95-96: the group used for entry n
SwUsed(n) == IF n % nsw = 0 THEN 0 ELSE sw

InitSort ==
    /\ pc = "gen" /\ err = NoError /\ i = 0
    /\ \E t \in TopologyLines : ReadTopology(t)
    /\ \E r \in SampleRequests(nports) : src = r.s /\ dst = r.d
    /\ IdleDupe /\ IdleSort /\ IdlePerm /\ IdleRoute

\* lines 83-93: the prologue of gen
SortGen ==
    /\ pc = "gen"
    /\ sw' = 0
    /\ i' = 0
    /\ printed' = <<>>
    /\ pc' = IF Len(routesort(src, dst)) = 0 THEN "done" ELSE "sortloop"
    /\ UNCHANGED <<err, topoVars, src, dst, dupeVars, permVars, routeVars>>

\* lines 94-103: one iteration of the loop over routesort
SortStep ==
    /\ pc = "sortloop"
    /\ IF nsw = 0
       THEN /\ pc' = "error"
            /\ err' = [NoError EXCEPT !.kind = "ZeroDivisionError"]
            /\ UNCHANGED <<sw, i, printed>>
       ELSE /\ printed' = Append(printed,
                [i |-> i, r |-> routesort(src, dst)[i + 1], sw |-> SwUsed(i),
                 header |-> FormatBits(
                     BitOr(SwUsed(i) * Pow2(hbits + 1), i), rbits)])
            /\ sw' = SwAfter(SwUsed(i), swskip, nsw)
            /\ i' = i + 1
            /\ pc' = IF i + 1 = Len(src) THEN "done" ELSE "sortloop"
            /\ err' = err
    /\ UNCHANGED <<topoVars, src, dst, dupeVars, permVars, routeVars>>

NextSort == SortGen \/ SortStep

SpecSort == InitSort /\ [][NextSort]_vars

(***************************************************************************)
(* mcenoc-route.py: BSPMat.  A dictionary is the sequence of its values in *)
(* insertion order; s is keyed by 'src' and d by 'dst'.  ps and pd are     *)
(* functions from the cells still present to the values of the cell's      *)
(* dictionary; the cells are created in ascending order and never added    *)
(* again, so the first key of ps or pd is the smallest cell present.       *)
(***************************************************************************)
\* Python's None, for an id or a size
None == -1

\* d[v.src] = v for a dictionary keyed by 'src'
PutBySrc(seq, v) ==
    IF \E j \in DOMAIN seq : seq[j].src = v.src
    THEN [j \in DOMAIN seq |-> IF seq[j].src = v.src THEN v ELSE seq[j]]
    ELSE Append(seq, v)

\* d[v.dst] = v for a dictionary keyed by 'dst'
PutByDst(seq, v) ==
    IF \E j \in DOMAIN seq : seq[j].dst = v.dst
    THEN [j \in DOMAIN seq |-> IF seq[j].dst = v.dst THEN v ELSE seq[j]]
    ELSE Append(seq, v)

RECURSIVE FoldBySrc(_, _)
FoldBySrc(seq, n) ==
    IF n = 0 THEN <<>> ELSE PutBySrc(FoldBySrc(seq, n - 1), seq[n])

RECURSIVE FoldByDst(_, _)
FoldByDst(seq, n) ==
    IF n = 0 THEN <<>> ELSE PutByDst(FoldByDst(seq, n - 1), seq[n])

\* BSPMat(): the empty matrix
EmptyBSPMat == [s |-> <<>>, d |-> <<>>, size |-> None]

\* BSPMat(zip(s, d))
BSPMatOf(s, d) ==
    LET pairs == [j \in 1..(IF Len(s) < Len(d) THEN Len(s) ELSE Len(d)) |->
                    [src |-> s[j], dst |-> d[j], os |-> None, od |-> None]]
        sdict == FoldBySrc(pairs, Len(pairs))
    IN  [s |-> sdict, d |-> FoldByDst(sdict, Len(sdict)), size |-> Len(sdict)]

\* BSPMat.insert
insert(m, x) ==
    LET v == [src |-> TruncDiv(x.src, 2), dst |-> TruncDiv(x.dst, 2),
              os |-> x.src, od |-> x.dst]
    IN  [m EXCEPT !.s = PutBySrc(@, v), !.d = PutByDst(@, v)]

Without(f, c) == [k \in (DOMAIN f) \ {c} |-> f[k]]

SelectSeqNotSrc(seq, a) == SelectSeq(seq, LAMBDA e : e.src # a)
SelectSeqNotDst(seq, b) == SelectSeq(seq, LAMBDA e : e.dst # b)

\* BSPMat.delete on the record st (fields ps, pd, err); a missing key is a
\* KeyError
delete(st, x) ==
    LET newsrc == TruncDiv(x.src, 2)
        newdst == TruncDiv(x.dst, 2)
    IN  IF st.err # "" THEN st
        ELSE IF \/ newsrc \notin DOMAIN st.ps
                \/ newdst \notin DOMAIN st.pd
                \/ \A e \in Range(st.ps[newsrc]) : e.src # x.src
                \/ \A e \in Range(st.pd[newdst]) : e.dst # x.dst
        THEN [st EXCEPT !.err = "KeyError"]
        ELSE LET srest == SelectSeqNotSrc(st.ps[newsrc], x.src)
                 drest == SelectSeqNotDst(st.pd[newdst], x.dst)
             IN  [st EXCEPT
                    !.ps = IF srest = <<>> THEN Without(st.ps, newsrc)
                           ELSE [st.ps EXCEPT ![newsrc] = srest],
                    !.pd = IF drest = <<>> THEN Without(st.pd, newdst)
                           ELSE [st.pd EXCEPT ![newdst] = drest]]

RECURSIVE PartitionScan(_, _)
\* BSPMat.partition: ps, pd and dbl after the first n values of m.d
PartitionScan(m, n) ==
    IF n = 0
    THEN [ps |-> [c \in 0..(TruncDiv(m.size, 2) - 1) |-> <<>>],
          pd |-> [c \in 0..(TruncDiv(m.size, 2) - 1) |-> <<>>],
          dbl |-> <<>>, seen |-> {}, err |-> ""]
    ELSE LET st == PartitionScan(m, n - 1)
             x == m.d[n]
             ns == TruncDiv(x.src, 2)
             nd == TruncDiv(x.dst, 2)
         IN  IF st.err # "" THEN st
             ELSE IF ns \notin DOMAIN st.ps \/ nd \notin DOMAIN st.pd
             THEN [st EXCEPT !.err = "KeyError"]
             ELSE [st EXCEPT
                     !.ps[ns] = PutBySrc(@, x),
                     !.pd[nd] = PutByDst(@, x),
                     !.dbl = IF <<ns, nd>> \in st.seen
                                /\ <<ns, nd>> \notin Range(st.dbl)
                             THEN Append(@, <<ns, nd>>) ELSE @,
                     !.seen = @ \cup {<<ns, nd>>}]

partition(m) == PartitionScan(m, Len(m.d))

\* v = next(iter(refl[cell].values())); target.insert(v); self.delete(v)
\* on the record st (fields ps, pd, Pa, Pb, v, err); refl is pd for side
\* "dst" and ps for side "src"
Take(st, side, cell, target) ==
    LET refl == IF side = "dst" THEN st.pd ELSE st.ps
    IN  IF st.err # "" THEN st
        ELSE IF cell \notin DOMAIN refl THEN [st EXCEPT !.err = "KeyError"]
        ELSE IF refl[cell] = <<>> THEN [st EXCEPT !.err = "StopIteration"]
        ELSE LET v == Head(refl[cell])
             IN  delete([st EXCEPT !.v = v,
                            !.Pa = IF target = "Pa" THEN insert(@, v) ELSE @,
                            !.Pb = IF target = "Pb" THEN insert(@, v) ELSE @],
                        v)

RECURSIVE DblScan(_, _, _)
\* the loop of permutedbl over the first n keys of dbl
DblScan(st, keys, n) ==
    IF n = 0 THEN st
    ELSE LET x == keys[n]
         IN  Take(Take(DblScan(st, keys, n - 1), "dst", x[2], "Pa"),
                  "dst", x[2], "Pb")

\* BSPMat.permutedbl: the record after the loop, with start and others
permutedbl(m, st, keys) ==
    LET after == DblScan(st, keys, Len(keys))
    IN  [ps |-> after.ps, pd |-> after.pd, Pa |-> after.Pa, Pb |-> after.Pb,
         err |-> after.err,
         start |-> IF Len(keys) = 0 THEN 0
                   ELSE IF DOMAIN after.pd # {} THEN SetMin(DOMAIN after.pd)
                   ELSE None,
         others |-> m.size - 1 - 2 * Len(keys)]

\* BSPMat.newpermute: the first key of r
newpermute(r) == SetMin(DOMAIN r)

\* line 129: reflu = [self.pd, self.ps], named by the side it indexes
reflu(idx) == IF idx = 0 THEN "dst" ELSE "src"

\* a chase that hands the entries to the sub-permutations the wrong way round
refinSwapped(idx) == IF idx = 0 THEN "Pa" ELSE "Pb"

\* line 130: refin = [Pb, Pa]
refin(idx) == IF idx = 0 THEN "Pb" ELSE "Pa"

\* line 131: refdim = ['dst', 'src']
refdim(idx) == IF idx = 0 THEN "dst" ELSE "src"

\* a collection that forgets to test the parity of the original id
iswAll(m) == {TruncDiv(m.d[j].os, 2) : j \in DOMAIN m.d}

\* lines 145-146: the relative switches of Pa whose original id is odd
isw(m) == {TruncDiv(m.d[j].os, 2) : j \in {n \in DOMAIN m.d : m.d[n].os % 2 = 1}}
osw(m) == {TruncDiv(m.d[j].od, 2) : j \in {n \in DOMAIN m.d : m.d[n].od % 2 = 1}}

\* a first stage that is one too low
GenStageOneLow(n) == Log2(n) - 2

\* line 337: stage = int(math.log(self.nports, 2)) - 1
GenStage(n) == Log2(n) - 1

(***************************************************************************)
(* mcenoc-route.py: BSRoute.routebits.                                     *)
(***************************************************************************)
\* line 252
nstages == Log2(nports) - 1

\* line 253: stages = list(range(nstages, 0, -1)) + list(range(nstages+1))
stagelist ==
    [j \in 1..(2 * nstages + 1) |->
        IF j <= nstages THEN nstages - j + 1 ELSE j - nstages - 1]

\* lines 254-255: linkstages = stages[1:nstages+1], then += reversed(...)
linkstages ==
    [j \in 1..(2 * nstages) |->
        IF j <= nstages THEN stagelist[j + 1]
        ELSE stagelist[(2 * nstages - j + 1) + 1]]

\* lines 257-258: 'in' for the first nstages+1 stages, then 'out'
side == [j \in 1..(2 * nstages + 1) |-> IF j <= nstages + 1 THEN "in" ELSE "out"]

\* lines 264-267: the table key of switch swi at stage st
context(st, swi) == <<st, TruncDiv(swi, Pow2(st))>>

\* lines 264-269: cross = relsw in cfg[side[i]]
cross(st, swi, sd) == (swi % Pow2(st)) \in swconfig[context(st, swi)][sd]

\* a header bit that records the crossing decision
bitIsCross(port, crossing) == IF crossing THEN 1 ELSE 0

\* lines 273, 275, 285, 287: the bit appended for the token on the given
\* port of a switch (0 or 1)
bit(port, crossing) ==
    IF crossing THEN (IF port = 0 THEN 1 ELSE 0)
    ELSE (IF port = 0 THEN 0 ELSE 1)

RECURSIVE StageScan(_, _, _)
\* lines 263-295: rbits and newinputs after the switches 0..n-1 of stage st
StageScan(st, sd, n) ==
    IF n = 0
    THEN [rb |-> headers, ni |-> [x \in 0..(nports - 1) |-> 0], err |-> ""]
    ELSE LET acc == StageScan(st, sd, n - 1)
             swi == n - 1
             p0 == 2 * swi
             p1 == 2 * swi + 1
         IN  IF acc.err # "" THEN acc
             ELSE IF context(st, swi) \notin DOMAIN swconfig
             THEN [acc EXCEPT !.err = "KeyError"]
             ELSE LET c == cross(st, swi, sd)
                      rb0 == [acc.rb EXCEPT ![inputs[p0]] = Append(@, bit(0, c))]
                      rb1 == [rb0 EXCEPT ![inputs[p1]] = Append(@, bit(1, c))]
                  IN  [acc EXCEPT
                         !.rb = rb1,
                         !.ni = IF c
                                THEN [acc.ni EXCEPT ![p0 + 1] = inputs[p0],
                                                    ![p1 - 1] = inputs[p1]]
                                ELSE [acc.ni EXCEPT ![p0] = inputs[p0],
                                                    ![p1] = inputs[p1]]]

\* lines 299-303
linkstep(idx) ==
    IF Pow2(linkstages[idx + 1] + 2) > nports THEN nports
    ELSE Pow2(linkstages[idx + 1] + 2)

\* lines 306-310
fport(p, step) ==
    LET pmap == (p % step) * 2
        wrapcount == TruncDiv(pmap, step)
        pmod == (pmap % step) + wrapcount
        blockoff == (p \div step) * step
    IN  pmod + blockoff

RECURSIVE LinkScan(_, _, _)
\* lines 304-313: newinputs after the ports 0..n-1
LinkScan(step, sd, n) ==
    IF n = 0 THEN [x \in 0..(nports - 1) |-> 0]
    ELSE LET p == n - 1
         IN  IF sd = "in"
             THEN [LinkScan(step, sd, n - 1) EXCEPT ![p] = inputs[fport(p, step)]]
             ELSE [LinkScan(step, sd, n - 1) EXCEPT ![fport(p, step)] = inputs[p]]

(***************************************************************************)
(* mcenoc-route.py: the run of gen, one action per step.                   *)
(***************************************************************************)
Init ==
    /\ pc = "gen" /\ err = NoError /\ i = 0
    /\ \E k \in 0..MaxK : ReadTopology(Benes(k))
    /\ \E r \in Requests(nports) : src = r.s /\ dst = r.d
    /\ IdleDupe /\ IdleSort /\ IdlePerm /\ IdleRoute

InitTopo ==
    /\ pc = "gen" /\ err = NoError /\ i = 0
    /\ \E t \in TopologyLines : ReadTopology(t)
    /\ \E r \in SampleRequests(nports) : src = r.s /\ dst = r.d
    /\ IdleDupe /\ IdleSort /\ IdlePerm /\ IdleRoute

Raise(kind) ==
    /\ pc' = "error"
    /\ err' = [NoError EXCEPT !.kind = kind]

\* lines 333-338: Pa = BSPMat(zip(src, dst)); Pa.permutation(stage)
Gen ==
    /\ pc = "gen"
    /\ self' = BSPMatOf(src, dst)
    /\ stage' = GenStage(nports)
    /\ offset' = 0
    /\ stack' = <<>>
    /\ swconfig' = <<>>
    /\ pc' = "partition"
    /\ UNCHANGED <<err, i, topoVars, src, dst, dupeVars, sortVars, ps, pd, dbl,
                   Pa, Pb, pos, refidx, startcol, othercols, routeVars>>

\* lines 121-122: self.partition(); Pa, Pb = BSPMat(), BSPMat()
Partition ==
    /\ pc = "partition"
    /\ LET st == partition(self)
       IN  IF st.err # ""
           THEN /\ Raise(st.err)
                /\ UNCHANGED <<ps, pd, dbl, Pa, Pb>>
           ELSE /\ ps' = st.ps
                /\ pd' = st.pd
                /\ dbl' = st.dbl
                /\ Pa' = EmptyBSPMat
                /\ Pb' = EmptyBSPMat
                /\ pc' = "permutedbl"
                /\ err' = err
    /\ UNCHANGED <<i, topoVars, src, dst, dupeVars, sortVars, stack, self, stage,
                   offset, pos, refidx, startcol, othercols, swconfig,
                   routeVars>>

\* line 123: startcol, othercols = self.permutedbl(Pa, Pb)
Permutedbl ==
    /\ pc = "permutedbl"
    /\ LET st == permutedbl(self,
                    [ps |-> ps, pd |-> pd, Pa |-> Pa, Pb |-> Pb,
                     v |-> [src |-> 0, dst |-> 0, os |-> None, od |-> None],
                     err |-> ""], dbl)
       IN  IF st.err # ""
           THEN /\ Raise(st.err)
                /\ UNCHANGED <<ps, pd, Pa, Pb, startcol, othercols>>
           ELSE /\ ps' = st.ps
                /\ pd' = st.pd
                /\ Pa' = st.Pa
                /\ Pb' = st.Pb
                /\ startcol' = st.start
                /\ othercols' = st.others
                /\ pc' = IF st.start # None THEN "chasestart" ELSE "finish"
                /\ err' = err
    /\ UNCHANGED <<i, topoVars, src, dst, dupeVars, sortVars, stack, self, stage,
                   offset, dbl, pos, refidx, swconfig, routeVars>>

\* lines 124-132: the first entry of the chase goes to Pa
ChaseStart ==
    /\ pc = "chasestart"
    /\ LET st == Take([ps |-> ps, pd |-> pd, Pa |-> Pa, Pb |-> Pb,
                       v |-> [src |-> 0, dst |-> 0, os |-> None, od |-> None],
                       err |-> ""], "dst", startcol, "Pa")
       IN  IF st.err # ""
           THEN /\ Raise(st.err)
                /\ UNCHANGED <<ps, pd, Pa, Pb, pos, refidx, i>>
           ELSE /\ ps' = st.ps
                /\ pd' = st.pd
                /\ Pa' = st.Pa
                /\ Pb' = st.Pb
                /\ pos' = TruncDiv(st.v.dst, 2)
                /\ refidx' = 0
                /\ i' = 0
                /\ pc' = IF othercols > 0 THEN "chase" ELSE "finish"
                /\ err' = err
    /\ UNCHANGED <<topoVars, src, dst, dupeVars, sortVars, stack, self, stage,
                   offset, dbl, startcol, othercols, swconfig, routeVars>>

\* lines 133-142: one iteration of the chase
ChaseStep ==
    /\ pc = "chase"
    /\ LET sd == reflu(refidx)
           refl == IF reflu(refidx) = "dst" THEN pd ELSE ps
           refi == refin(refidx)
           nextidx == (refidx + 1) % 2
       IN  IF pos \notin DOMAIN refl /\ DOMAIN refl = {}
           THEN /\ Raise("StopIteration")
                /\ UNCHANGED <<ps, pd, Pa, Pb, pos, refidx, i>>
           ELSE LET from == IF pos \notin DOMAIN refl THEN newpermute(refl)
                            ELSE pos
                    st == Take([ps |-> ps, pd |-> pd, Pa |-> Pa, Pb |-> Pb,
                                v |-> [src |-> 0, dst |-> 0, os |-> None,
                                       od |-> None],
                                err |-> ""], sd, from, refi)
                IN  IF st.err # ""
                    THEN /\ Raise(st.err)
                         /\ UNCHANGED <<ps, pd, Pa, Pb, pos, refidx, i>>
                    ELSE /\ ps' = st.ps
                         /\ pd' = st.pd
                         /\ Pa' = st.Pa
                         /\ Pb' = st.Pb
                         /\ refidx' = nextidx
                         /\ pos' = IF refdim(nextidx) = "dst"
                                   THEN TruncDiv(st.v.dst, 2)
                                   ELSE TruncDiv(st.v.src, 2)
                         /\ i' = i + 1
                         /\ pc' = IF i + 1 < othercols THEN "chase" ELSE "finish"
                         /\ err' = err
    /\ UNCHANGED <<topoVars, src, dst, dupeVars, sortVars, stack, self, stage,
                   offset, dbl, startcol, othercols, swconfig, routeVars>>

\* lines 143-153: the table entry of this call, then the two recursive
\* calls (Pa first, Pb kept on the stack) or the return to the caller
Finish ==
    /\ pc = "finish"
    /\ swconfig' = (<<stage, offset>> :> [in |-> isw(Pa), out |-> osw(Pa)])
                   @@ swconfig
    /\ IF stage - 1 >= 0
       THEN /\ self' = [Pa EXCEPT !.size = Len(Pa.d)]
            /\ stage' = stage - 1
            /\ offset' = offset * 2
            /\ stack' = <<[m |-> [Pb EXCEPT !.size = Len(Pb.d)],
                           stage |-> stage - 1,
                           offset |-> offset * 2 + 1]>> \o stack
            /\ pc' = "partition"
       ELSE IF stack # <<>>
       THEN /\ self' = Head(stack).m
            /\ stage' = Head(stack).stage
            /\ offset' = Head(stack).offset
            /\ stack' = Tail(stack)
            /\ pc' = "partition"
       ELSE /\ pc' = "routebits"
            /\ UNCHANGED <<self, stage, offset, stack>>
    /\ UNCHANGED <<err, i, topoVars, src, dst, dupeVars, sortVars, ps, pd, dbl,
                   Pa, Pb, pos, refidx, startcol, othercols, routeVars>>

\* lines 251-260: the tokens start on their own port with empty headers
RouteInit ==
    /\ pc = "routebits"
    /\ headers' = [x \in 0..(nports - 1) |-> <<>>]
    /\ inputs' = [x \in 0..(nports - 1) |-> x]
    /\ i' = 0
    /\ pc' = IF Len(stagelist) = 0 THEN "done" ELSE "stage"
    /\ UNCHANGED <<err, topoVars, src, dst, dupeVars, sortVars, permVars>>

\* lines 262-296: every switch of stage stages[i]
RouteStage ==
    /\ pc = "stage"
    /\ LET acc == StageScan(stagelist[i + 1], side[i + 1], nports \div 2)
       IN  IF acc.err # ""
           THEN /\ Raise(acc.err)
                /\ UNCHANGED <<inputs, headers>>
           ELSE /\ headers' = acc.rb
                /\ inputs' = acc.ni
                /\ pc' = IF i + 1 < Len(stagelist) THEN "link" ELSE "done"
                /\ err' = err
    /\ UNCHANGED <<i, topoVars, src, dst, dupeVars, sortVars, permVars>>

\* lines 298-314: the wiring between stage i and stage i+1
RouteLink ==
    /\ pc = "link"
    /\ inputs' = LinkScan(linkstep(i), side[i + 1], nports)
    /\ i' = i + 1
    /\ pc' = "stage"
    /\ UNCHANGED <<err, topoVars, src, dst, dupeVars, sortVars, permVars,
                   headers>>

Next ==
    \/ Gen
    \/ Partition
    \/ Permutedbl
    \/ ChaseStart
    \/ ChaseStep
    \/ Finish
    \/ RouteInit
    \/ RouteStage
    \/ RouteLink

Spec == Init /\ [][Next]_vars

SpecTopo == InitTopo /\ [][Next]_vars

(***************************************************************************)
(* Properties.                                                             *)
(***************************************************************************)
Ports == 0..(nports - 1)

Last(seq) == seq[Len(seq)]

Returned == pc \in {"routebits", "stage", "link", "done"}

\* C1: round trip.  When routebits has simulated every stage and link with
\* the table built by permutation, the token that entered at port s is on
\* output port d, for every requested pair (s, d).
C1_RoundTrip ==
    pc = "done" => \A j \in DOMAIN src : inputs[dst[j]] = src[j]

\* C2: for every N = 2^k, k >= 0, the decomposition started by gen ends
\* without error and the returned table has exactly the keys (st, g) with
\* 0 <= st <= k-1 and 0 <= g < 2^(k-1-st).
C2_TableKeys ==
    /\ pc # "error"
    /\ Returned =>
          DOMAIN swconfig =
              {k \in (0..(Log2(nports) - 1)) \X (0..(nports - 1)) :
                  k[2] < Pow2(Log2(nports) - 1 - k[1])}

\* the values that occur more than once in a list
Repeated(lst) ==
    {v \in Range(lst) : Cardinality({j \in DOMAIN lst : lst[j] = v}) > 1}

\* C3: dupecheck raises the duplicate-value error exactly when some value
\* occurs more than once in the list, and the set it reports is exactly the
\* set of values that occur more than once; otherwise it raises nothing.
C3_Dupecheck ==
    pc \in {"done", "error"} =>
        /\ (pc = "error") <=> (Repeated(l) # {})
        /\ pc = "error" => err.kind = "Duplicate" /\ err.dupes = Repeated(l)
        /\ pc = "done" => err = NoError
        /\ dupes = Repeated(l)

C3_Witness ==
    pc = "error" /\ Cardinality(err.dupes) = 2 /\ Len(l) = MaxLen

OutOfRange(n, lst) == {v \in Range(lst) : v < 0 \/ v >= n}

RaisedOutOfRange ==
    /\ pc = "error"
    /\ err.kind = "OutOfRange"
    /\ err.value \in OutOfRange(nports, src) \cup OutOfRange(nports, dst)

\* C4 as claimed: validating a request fails with the out-of-range error,
\* naming an offending id, if and only if some source or destination id is
\* < 0 or >= N.
C4_RangeIff ==
    pc \in {"validated", "error"} =>
        (RaisedOutOfRange <=>
            (OutOfRange(nports, src) \cup OutOfRange(nports, dst) # {}))

\* C4 as amended: validating a request fails with the out-of-range error,
\* naming an offending id, if and only if no id is repeated within the
\* sources or within the destinations and some source or destination id is
\* < 0 or >= N (a repeated id is reported first, as a duplicate).
C4_RangeIffNoDupes ==
    pc \in {"validated", "error"} =>
        (RaisedOutOfRange <=>
            /\ Repeated(src) = {}
            /\ Repeated(dst) = {}
            /\ OutOfRange(nports, src) \cup OutOfRange(nports, dst) # {})

C4_Witness ==
    /\ RaisedOutOfRange
    /\ err.value = nports
    /\ Len(src) = MaxPairs

\* C5: every port's bit sequence returned by routebits has the same length,
\* and that length is rbits = 2*stages*stageBits + middleBits.
C5_HeaderLength ==
    pc = "done" => \A p \in Ports : Len(headers[p]) = rbits

GroupSize(st) == IF st >= 0 THEN Pow2(st) ELSE 0

\* C6 as claimed: for every (stage, group) entry of the table,
\* |crossInputs| <= groupSize/2 and |crossOutputs| <= groupSize/2, where
\* groupSize = 2^stage.
C6_HalfGroup ==
    \A k \in DOMAIN swconfig :
        /\ 2 * Cardinality(swconfig[k]["in"]) <= GroupSize(k[1])
        /\ 2 * Cardinality(swconfig[k]["out"]) <= GroupSize(k[1])

\* C6 as amended: for every (stage, group) entry of the table,
\* |crossInputs| <= groupSize and |crossOutputs| <= groupSize, where
\* groupSize = 2^stage.
C6_WholeGroup ==
    \A k \in DOMAIN swconfig :
        /\ Cardinality(swconfig[k]["in"]) <= GroupSize(k[1])
        /\ Cardinality(swconfig[k]["out"]) <= GroupSize(k[1])

C6_Witness ==
    /\ pc = "done"
    /\ nports = Pow2(MaxK)
    /\ \E k \in DOMAIN swconfig :
          /\ k[1] = MaxK - 1
          /\ Cardinality(swconfig[k]["in"]) = GroupSize(k[1])

IdentityRequest ==
    /\ nports >= 2
    /\ src = [j \in 1..nports |-> j - 1]
    /\ dst = [j \in 1..nports |-> j - 1]

\* C7: for the identity request (sources and destinations both listed as
\* 0..N-1, N >= 2) every table entry has empty crossInputs and empty
\* crossOutputs, no stage of routebits moves a token to another port, and
\* the token that entered at port s ends on port s.
C7_Identity ==
    /\ [](IdentityRequest =>
            /\ \A k \in DOMAIN swconfig :
                  swconfig[k]["in"] = {} /\ swconfig[k]["out"] = {}
            /\ pc # "error"
            /\ pc = "done" => \A p \in Ports : inputs[p] = p)
    /\ [][IdentityRequest /\ pc = "stage" => inputs' = inputs]_vars

C7_Witness ==
    /\ IdentityRequest
    /\ nports = Pow2(MaxK)
    /\ pc = "done"
    /\ DOMAIN swconfig # {}

InSub(m, e) == \E j \in DOMAIN m.d : m.d[j].os = e.src /\ m.d[j].od = e.dst

IsPermutation(m) ==
    /\ m.size = Len(m.d)
    /\ Len(m.s) = Len(m.d)
    /\ {m.d[j].src : j \in DOMAIN m.d} = 0..(m.size - 1)
    /\ {m.d[j].dst : j \in DOMAIN m.d} = 0..(m.size - 1)
    /\ Range(m.s) = Range(m.d)

\* C8: whenever permutation runs on a permutation of [0, M), M >= 2, then
\* after the split of the doubles and the chase every entry is in exactly
\* one of Pa and Pb, two entries that share a halved source cell or a halved
\* destination cell are in different sub-permutations, and Pa and Pb each
\* hold M/2 entries and are each a permutation of [0, M/2).
C8_TwoColouring ==
    (pc = "finish" /\ self.size >= 2 /\ IsPermutation(self)) =>
        /\ \A j \in DOMAIN self.d :
              InSub(Pa, self.d[j]) # InSub(Pb, self.d[j])
        /\ \A j, n \in DOMAIN self.d :
              (j # n /\ (\/ self.d[j].src \div 2 = self.d[n].src \div 2
                         \/ self.d[j].dst \div 2 = self.d[n].dst \div 2))
                  => InSub(Pa, self.d[j]) # InSub(Pa, self.d[n])
        /\ IsPermutation([Pa EXCEPT !.size = self.size \div 2])
        /\ IsPermutation([Pb EXCEPT !.size = self.size \div 2])
        /\ Len(Pa.d) = self.size \div 2
        /\ Len(Pb.d) = self.size \div 2
        /\ DOMAIN ps = {} /\ DOMAIN pd = {}

\* a call on 8 entries with no double cell whose chase closed a first cycle
\* of four entries and restarted for the second
C8_Witness ==
    /\ pc = "finish"
    /\ self.size = 8
    /\ IsPermutation(self)
    /\ dbl = <<>>
    /\ Cardinality({self.d[n].dst \div 2 : n \in {j \in DOMAIN self.d :
            \E m \in DOMAIN self.d : /\ self.d[m].dst \div 2 = 0
                                     /\ self.d[m].src \div 2 =
                                            self.d[j].src \div 2}}) = 2

\* the side the claim names for stage index i: 'in' for the expansion half
\* (up to the middle stage), 'out' for the contraction half
ClaimedSide == IF i + 1 <= Log2(nports) THEN "in" ELSE "out"

InCrossingSet(p) ==
    LET st == stagelist[i + 1]
    IN  ((p \div 2) % Pow2(st))
            \in swconfig[<<st, (p \div 2) \div Pow2(st)>>][ClaimedSide]

Partner(p) == IF p % 2 = 0 THEN p + 1 ELSE p - 1

\* C9 as claimed: at every stage and for every token, the bit appended is 1
\* and the token moves to the other port of its switch exactly when the
\* switch's relative position is in the crossing set of the current side;
\* otherwise the bit appended is 0 and the token keeps its port.
C9_BitIsCrossing ==
    [][(pc = "stage" /\ pc' # "error") =>
        \A p \in Ports :
            /\ Len(headers'[inputs[p]]) = Len(headers[inputs[p]]) + 1
            /\ InCrossingSet(p) =>
                  /\ Last(headers'[inputs[p]]) = 1
                  /\ inputs'[Partner(p)] = inputs[p]
            /\ ~InCrossingSet(p) =>
                  /\ Last(headers'[inputs[p]]) = 0
                  /\ inputs'[p] = inputs[p]]_vars

\* C9 as amended: at every stage and for every token, the token moves to
\* the other port of its switch exactly when the switch's relative position
\* is in the crossing set of the current side, and otherwise keeps its
\* port; the bit appended is the number (0 or 1) of the switch port the
\* token leaves on.
C9_BitIsExitPort ==
    [][(pc = "stage" /\ pc' # "error") =>
        \A p \in Ports :
            /\ Len(headers'[inputs[p]]) = Len(headers[inputs[p]]) + 1
            /\ InCrossingSet(p) =>
                  /\ Last(headers'[inputs[p]]) = Partner(p) % 2
                  /\ inputs'[Partner(p)] = inputs[p]
            /\ ~InCrossingSet(p) =>
                  /\ Last(headers'[inputs[p]]) = p % 2
                  /\ inputs'[p] = inputs[p]]_vars

\* a stage of the contraction half has just crossed a switch
C9_Witness ==
    /\ pc = "done"
    /\ nports = Pow2(MaxK)
    /\ \E k \in DOMAIN swconfig :
          k[1] = MaxK - 1 /\ swconfig[k]["out"] # {} /\ swconfig[k]["in"] = {}
    /\ \E p \in Ports : Last(headers[p]) = 0
    /\ \E p \in Ports : Last(headers[p]) = 1

SortBlock == nports \div Pow2(mbits)
SortSkip == SortBlock \div Pow2(mbits)

\* C10 as claimed: the group used for sorted entry i is 0 whenever
\* i mod block = 0, and otherwise (group of entry i-1 + skip) mod block.
C10_PlainWrap ==
    \A j \in DOMAIN printed :
        printed[j].sw =
            IF printed[j].i % SortBlock = 0 THEN 0
            ELSE (printed[j - 1].sw + SortSkip) % SortBlock

\* C10 as amended: the group used for sorted entry i is 0 whenever
\* i mod block = 0; otherwise, with g the group of entry i-1, it is g + skip
\* when g + skip < block and (g + skip + 1) mod block when g + skip >= block.
C10_SteppedWrap ==
    \A j \in DOMAIN printed :
        printed[j].sw =
            IF printed[j].i % SortBlock = 0 THEN 0
            ELSE IF printed[j - 1].sw + SortSkip < SortBlock
                 THEN printed[j - 1].sw + SortSkip
                 ELSE (printed[j - 1].sw + SortSkip + 1) % SortBlock

C10_Witness ==
    /\ pc = "done"
    /\ \E j \in DOMAIN printed :
          /\ printed[j].i % SortBlock # 0
          /\ printed[j - 1].sw + SortSkip >= SortBlock
          /\ printed[j].sw # 0

====
